---- MODULE Spec2Model ----
(***************************************************************************)
(* The get command of tempo-planned-time-cli (class Get of                 *)
(* src/lib/command-base.js): config and argument validation, the single    *)
(* request to the Tempo API, and the mapping of the returned plans onto    *)
(* the calendar days of the query range.                                   *)
(*                                                                         *)
(* Representation.  A date string is the sequence of numeric fields the    *)
(* tokens YYYY-MM-DD match, <<2020, 1, 31>> for "2020-01-31" and <<>> for  *)
(* a text with no date in it.  A moment is [valid, day, ms]: the calendar  *)
(* day counted from 2020-01-01 and the millisecond of that day (the local  *)
(* clock; daylight-saving shifts are not modelled).  A JavaScript object   *)
(* with string keys is the sequence of its entries in insertion order,     *)
(* which is its iteration order.                                           *)
(***************************************************************************)
EXTENDS Integers, Sequences, FiniteSets, TLC

VARIABLES
  argv,                \* this.argv: fromDate, toDate, tomorrow, week
  config,              \* the Conf store: accountId, token ("" when unset)
  now,                 \* the clock read by this.moment()
  pc,                  \* start | pending | resolved | rejected | done
  dates,               \* from and to of execute(), captured by the callbacks
  requests,            \* the GET requests handed to axios, in order
  settled,             \* what the promise chain carries: results or a reason
  queryContainsPlans,  \* this.queryContainsPlans
  mappedPlans,         \* the object mapPlans builds
  output               \* what was printed, in order

vars == <<argv, config, now, pc, dates, requests, settled,
          queryContainsPlans, mappedPlans, output>>

-----------------------------------------------------------------------------
(* Bounds of the model.                                                    *)

\* Most plan records in one response, and most dates.values entries in one
\* response over all its records, for the command lines of InitMap.
MaxPlans == 2
MaxValues == 2
\* The same for the command lines of Init, which are many more.
FewPlans == 1
FewValues == 1

-----------------------------------------------------------------------------
(* Calendar arithmetic behind moment(text, 'YYYY-MM-DD') and format().     *)

EpochYear == 2020
MsPerDay == 24 * 60 * 60 * 1000
EndOfDayMs == MsPerDay - 1

IsLeapYear(y) == (y % 4 = 0 /\ y % 100 # 0) \/ y % 400 = 0

DaysInMonth(y, m) ==
  IF m = 2 THEN (IF IsLeapYear(y) THEN 29 ELSE 28)
  ELSE IF m \in {4, 6, 9, 11} THEN 30 ELSE 31

DaysInYear(y) == IF IsLeapYear(y) THEN 366 ELSE 365

RECURSIVE DaysBeforeYear(_)
DaysBeforeYear(y) ==
  IF y <= EpochYear THEN 0 ELSE DaysBeforeYear(y - 1) + DaysInYear(y - 1)

RECURSIVE DaysBeforeMonth(_, _)
DaysBeforeMonth(y, m) ==
  IF m <= 1 THEN 0 ELSE DaysBeforeMonth(y, m - 1) + DaysInMonth(y, m - 1)

InvalidMoment == [valid |-> FALSE, day |-> 0, ms |-> 0]

\* moment(text, 'YYYY-MM-DD'): the start of the day the three fields name;
\* invalid when a field is missing or out of its range (2020-02-30).
ParseDate(text) ==
  IF Len(text) # 3 THEN InvalidMoment
  ELSE LET y == text[1]
           m == text[2]
           d == text[3]
       IN IF /\ y >= EpochYear
             /\ m \in 1..12
             /\ d \in 1..DaysInMonth(y, m)
          THEN [valid |-> TRUE,
                day   |-> DaysBeforeYear(y) + DaysBeforeMonth(y, m) + (d - 1),
                ms    |-> 0]
          ELSE InvalidMoment

RECURSIVE YearOfDay(_, _)
YearOfDay(y, n) ==
  IF n < DaysInYear(y) THEN <<y, n>> ELSE YearOfDay(y + 1, n - DaysInYear(y))

RECURSIVE MonthOfDay(_, _, _)
MonthOfDay(y, m, n) ==
  IF n < DaysInMonth(y, m) THEN <<m, n>>
  ELSE MonthOfDay(y, m + 1, n - DaysInMonth(y, m))

\* moment.format('YYYY-MM-DD'): the calendar date of the moment's day.
FormatDate(mom) ==
  LET yn == YearOfDay(EpochYear, mom.day)
      mn == MonthOfDay(yn[1], 1, yn[2])
  IN <<yn[1], mn[1], mn[2] + 1>>

IsValid(mom) == mom.valid

\* valueOf() order of two valid moments.
Before(a, b) == a.day < b.day \/ (a.day = b.day /\ a.ms < b.ms)
AtOrBefore(a, b) == ~Before(b, a)
SameInstant(a, b) == a.day = b.day /\ a.ms = b.ms

\* a.isAfter(b): false when either moment is invalid.
IsAfter(a, b) == a.valid /\ b.valid /\ Before(b, a)
\* a.isBefore(b)
IsBefore(a, b) == a.valid /\ b.valid /\ Before(a, b)

\* mom.add(n, 'days'): same clock time, n calendar days later.
AddDays(mom, n) == [mom EXCEPT !.day = @ + n]

StartOfDay(mom) == [mom EXCEPT !.ms = 0]
EndOfDay(mom) == [mom EXCEPT !.ms = EndOfDayMs]

\* a.diff(b, 'days'): whole days from b to a, truncated toward zero.
DiffDays(a, b) ==
  IF AtOrBefore(b, a)
  THEN (a.day - b.day) - (IF a.ms < b.ms THEN 1 ELSE 0)
  ELSE -((b.day - a.day) - (IF b.ms < a.ms THEN 1 ELSE 0))

Abs(n) == IF n < 0 THEN -n ELSE n

-----------------------------------------------------------------------------
(* moment-range: range(start, end), by('days') and intersect().            *)

Range(start, end) == [start |-> start, end |-> end]

\* No intersection: intersect() returns null.
NullRange == [start |-> InvalidMoment, end |-> InvalidMoment]
IsNull(range) == ~range.start.valid

\* by('days') leaving out the last day (excludeEnd).
RangeByDaysExcludeEnd(range) ==
  [i \in 1..Abs(DiffDays(range.start, range.end)) |->
      AddDays(range.start, i - 1)]

\* Array.from(range.by('days')): start, start + 1 day, ... while the
\* iteration count is at most |start.diff(end, 'days')|.
RangeByDays(range) ==
  [i \in 1..(Abs(DiffDays(range.start, range.end)) + 1) |->
      AddDays(range.start, i - 1)]

\* this.intersect(other)
Intersect(this, other) ==
  LET start == this.start
      end == this.end
      otherStart == other.start
      otherEnd == other.end
      isZeroLength == SameInstant(start, end)
      isOtherZeroLength == SameInstant(otherStart, otherEnd)
      general ==
        IF AtOrBefore(start, otherStart) /\ Before(otherStart, end)
             /\ Before(end, otherEnd)
        THEN Range(otherStart, end)
        ELSE IF Before(otherStart, start) /\ Before(start, otherEnd)
                  /\ AtOrBefore(otherEnd, end)
        THEN Range(start, otherEnd)
        ELSE IF Before(otherStart, start) /\ AtOrBefore(start, end)
                  /\ Before(end, otherEnd)
        THEN this
        ELSE IF AtOrBefore(start, otherStart) /\ AtOrBefore(otherStart, otherEnd)
                  /\ AtOrBefore(otherEnd, end)
        THEN Range(otherStart, otherEnd)
        ELSE NullRange
  IN IF isZeroLength
     THEN IF SameInstant(start, otherStart) \/ SameInstant(start, otherEnd)
          THEN NullRange
          ELSE IF Before(otherStart, start) /\ Before(start, otherEnd)
          THEN this
          ELSE general
     ELSE IF isOtherZeroLength
     THEN IF SameInstant(otherStart, start) \/ SameInstant(otherStart, end)
          THEN NullRange
          ELSE IF Before(start, otherStart) /\ Before(otherStart, end)
          THEN Range(otherStart, otherStart)
          ELSE general
     ELSE general

-----------------------------------------------------------------------------
(* moment.duration(seconds, 'seconds').humanize(), up to days.             *)

\* Math.round of n / d for n >= 0.
RoundDiv(n, d) == (2 * n + d) \div (2 * d)

Humanize(secs) ==
  LET seconds == secs
      minutes == RoundDiv(secs, 60)
      hours == RoundDiv(secs, 3600)
      days == RoundDiv(secs, 86400)
  IN IF seconds <= 44 THEN <<"a few seconds">>
     ELSE IF seconds < 45 THEN <<ToString(seconds), "seconds">>
     ELSE IF minutes <= 1 THEN <<"a minute">>
     ELSE IF minutes < 45 THEN <<ToString(minutes), "minutes">>
     ELSE IF hours <= 1 THEN <<"an hour">>
     ELSE IF hours < 22 THEN <<ToString(hours), "hours">>
     ELSE IF days <= 1 THEN <<"a day">>
     ELSE <<ToString(days), "days">>

-----------------------------------------------------------------------------
(* Class Get: validation and date resolution.                              *)

\* The error messages, named by the kind of failure they report.
MissingConfig == "MissingConfig"            \* 'New install, who dis? ...'
ConflictingOptions == "ConflictingOptions"  \* 'Do you want tomorrow of ...'
InvalidDate == "InvalidDate"                \* 'Invalid dates provided. ...'
RangeOrderError == "RangeOrderError"        \* 'Provided fromDate occurs ...'
RangeTooLarge == "RangeTooLarge"            \* 'A maximum of 14 days ...'
TypeError == "TypeError"                    \* thrown inside the then callback
UpstreamFetchError == "UpstreamFetchError"  \* the rejection reason of axios
NoError == "ok"

ValidationErrors ==
  {MissingConfig, ConflictingOptions, InvalidDate, RangeOrderError, RangeTooLarge}

\* validateConfig(): the message thrown, or NoError when it returns true.
ValidateConfig(cfg) ==
  IF cfg.accountId = "" \/ cfg.token = "" THEN MissingConfig ELSE NoError

\* validateArgs without its first check, the one of the two flags.
ValidateArgsNoFlagCheck(av, d) ==
  IF ~IsValid(d.from) \/ ~IsValid(d.to) THEN InvalidDate
  ELSE IF IsAfter(d.from, d.to) THEN RangeOrderError
  ELSE IF DiffDays(d.to, d.from) > 13 THEN RangeTooLarge
  ELSE NoError

\* validateArgs with the limit compared against 14 instead of 13.
ValidateArgsLimit14(av, d) ==
  IF av.tomorrow /\ av.week THEN ConflictingOptions
  ELSE IF ~IsValid(d.from) \/ ~IsValid(d.to) THEN InvalidDate
  ELSE IF IsAfter(d.from, d.to) THEN RangeOrderError
  ELSE IF DiffDays(d.to, d.from) > 14 THEN RangeTooLarge
  ELSE NoError

\* validateArgs(dates): the message thrown, or NoError when it returns true.
ValidateArgs(av, d) ==
  IF av.tomorrow /\ av.week THEN ConflictingOptions
  ELSE IF ~IsValid(d.from) \/ ~IsValid(d.to) THEN InvalidDate
  ELSE IF IsAfter(d.from, d.to) THEN RangeOrderError
  ELSE IF DiffDays(d.to, d.from) > 13 THEN RangeTooLarge
  ELSE NoError

\* getQueryFromAndToDates with week reaching 7 days ahead instead of 6.
GetQueryFromAndToDatesWeek7(av, clock) ==
  IF av.tomorrow
  THEN [from |-> AddDays(clock, 1), to |-> AddDays(clock, 1)]
  ELSE IF av.week
  THEN [from |-> clock, to |-> AddDays(clock, 7)]
  ELSE [from |-> ParseDate(av.fromDate), to |-> ParseDate(av.toDate)]

\* getQueryFromAndToDates()
GetQueryFromAndToDates(av, clock) ==
  IF av.tomorrow
  THEN [from |-> AddDays(clock, 1), to |-> AddDays(clock, 1)]
  ELSE IF av.week
  THEN [from |-> clock, to |-> AddDays(clock, 6)]
  ELSE [from |-> ParseDate(av.fromDate), to |-> ParseDate(av.toDate)]

-----------------------------------------------------------------------------
(* Class Get: the plan interval extractor and the day mapper.              *)

\* The sanity check testing only whether the seconds are there.
HasPlannedTimeField(planDateValues) ==
  "timePlannedSeconds" \in DOMAIN planDateValues

\* !planDateValues.timePlannedSeconds is false: the value is there, not 0.
HasPlannedTime(planDateValues) ==
  /\ "timePlannedSeconds" \in DOMAIN planDateValues
  /\ planDateValues.timePlannedSeconds # 0

\* The range of one entry without the exchange of reversed ends.
PlanDateRangeAsGiven(planDateValues) ==
  LET start == ParseDate(planDateValues.from)
      end == ParseDate(planDateValues.to)
  IN Range(StartOfDay(start), EndOfDay(end))

\* The range of one dates.values entry, its ends swapped when reversed.
PlanDateRange(planDateValues) ==
  LET start == ParseDate(planDateValues.from)
      end == ParseDate(planDateValues.to)
  IN IF IsBefore(end, start)
     THEN Range(StartOfDay(end), EndOfDay(start))
     ELSE Range(StartOfDay(start), EndOfDay(end))

\* getPlanDateRanges(plan)
GetPlanDateRanges(plan) ==
  LET kept == SelectSeq(plan.dates.values, HasPlannedTime)
  IN [i \in 1..Len(kept) |-> PlanDateRange(kept[i])]

\* self.substring(self.lastIndexOf('/') + 1), self given as its '/'-separated
\* segments: the last segment, the whole text when there is no '/'.
TaskKey(self) == self[Len(self)]

\* planData with the duration taken in minutes instead of seconds.
PlanDataMinutes(plan) ==
  [task          |-> plan.planItem.self,
   taskKey       |-> TaskKey(plan.planItem.self),
   description   |-> plan.description,
   secondsPerDay |-> plan.secondsPerDay,
   plannedTime   |-> Humanize(plan.secondsPerDay * 60)]

\* The planData object of mapPlans.
PlanData(plan) ==
  [task          |-> plan.planItem.self,
   taskKey       |-> TaskKey(plan.planItem.self),
   description   |-> plan.description,
   secondsPerDay |-> plan.secondsPerDay,
   plannedTime   |-> Humanize(plan.secondsPerDay)]

\* Index of key among the entries of obj, 0 when obj has no such key.
KeyIndex(obj, key) ==
  IF \E i \in 1..Len(obj) : obj[i].key = key
  THEN CHOOSE i \in 1..Len(obj) : obj[i].key = key
  ELSE 0

\* acc[key] = [] of the reduce that initialises mappedPlans.
RECURSIVE InitDays(_, _, _)
InitDays(acc, days, i) ==
  IF i > Len(days) THEN acc
  ELSE LET key == FormatDate(days[i])
           at == KeyIndex(acc, key)
           next == IF at = 0
                   THEN Append(acc, [key |-> key, items |-> <<>>])
                   ELSE [acc EXCEPT ![at].items = <<>>]
       IN InitDays(next, days, i + 1)

\* mappedPlans[planItemDate.format('YYYY-MM-DD')].push(planData) for each day
\* of the applicable range; push on a missing key throws.
RECURSIVE PushDays(_, _, _, _)
PushDays(acc, days, planData, i) ==
  IF acc.threw \/ i > Len(days) THEN acc
  ELSE LET at == KeyIndex(acc.mappedPlans, FormatDate(days[i]))
       IN IF at = 0 THEN [acc EXCEPT !.threw = TRUE]
          ELSE PushDays(
                 [acc EXCEPT !.mappedPlans[at].items = Append(@, planData)],
                 days, planData, i + 1)

\* planRanges.forEach(planRange => ...): applicableRange.by('days') throws
\* when intersect() returned null.
RECURSIVE MapPlanRanges(_, _, _, _, _)
MapPlanRanges(acc, queryRange, plan, planRanges, i) ==
  IF acc.threw \/ i > Len(planRanges) THEN acc
  ELSE LET applicableRange == Intersect(queryRange, planRanges[i])
       IN IF IsNull(applicableRange) THEN [acc EXCEPT !.threw = TRUE]
          ELSE MapPlanRanges(
                 PushDays(acc, RangeByDays(applicableRange), PlanData(plan), 1),
                 queryRange, plan, planRanges, i + 1)

\* plans.forEach(plan => ...)
RECURSIVE MapEachPlan(_, _, _, _)
MapEachPlan(acc, queryRange, plans, k) ==
  IF acc.threw \/ k > Len(plans) THEN acc
  ELSE MapEachPlan(
         MapPlanRanges(acc, queryRange, plans[k], GetPlanDateRanges(plans[k]), 1),
         queryRange, plans, k + 1)

\* mapPlans(from, to, plans): the mappedPlans object as built, and whether
\* the call threw before returning it.
MapPlans(from, to, plans) ==
  LET queryRange == Range(StartOfDay(from), EndOfDay(to))
      empty == InitDays(<<>>, RangeByDays(queryRange), 1)
  IN MapEachPlan([threw |-> FALSE, mappedPlans |-> empty], queryRange, plans, 1)

\* The rows buildResultsTable pushes for one day.
DayRows(entry, containsPlans, jiraBaseUrl) ==
  LET colSpan == IF containsPlans THEN 4 ELSE 1
      header == [row |-> "header", colSpan |-> colSpan, cells |-> <<entry.key>>]
  IN IF Len(entry.items) = 0
     THEN <<header, [row |-> "none", colSpan |-> colSpan, cells |-> <<>>]>>
     ELSE <<header, [row |-> "columns", colSpan |-> 1, cells |-> <<>>]>>
          \o [j \in 1..Len(entry.items) |->
                [row |-> "item", colSpan |-> 1,
                 cells |-> <<entry.items[j].taskKey,
                             entry.items[j].plannedTime,
                             entry.items[j].description,
                             <<jiraBaseUrl, "browse/", entry.items[j].taskKey>> >>]]

\* buildResultsTable(mappedPlans, jiraBaseUrl)
RECURSIVE BuildResultsTable(_, _, _, _)
BuildResultsTable(mapped, containsPlans, jiraBaseUrl, i) ==
  IF i > Len(mapped) THEN <<>>
  ELSE DayRows(mapped[i], containsPlans, jiraBaseUrl)
       \o BuildResultsTable(mapped, containsPlans, jiraBaseUrl, i + 1)

-----------------------------------------------------------------------------
(* The inputs: command lines, config stores, clocks and API responses.     *)

Jan30 == <<2020, 1, 30>>
Jan31 == <<2020, 1, 31>>
Feb01 == <<2020, 2, 1>>
Feb02 == <<2020, 2, 2>>
Feb12 == <<2020, 2, 12>>
Feb13 == <<2020, 2, 13>>
Feb30 == <<2020, 2, 30>>  \* no such day
NoDate == <<>>            \* a text that is no date

\* --from / --to texts: 14 inclusive days from Jan30 to Feb12, 15 to Feb13.
DateTexts == {Jan30, Feb01, Feb12, Feb13, Feb30, NoDate}

\* The clock: midnight and noon of 2020-01-31, the last ms of 2020-01-30.
Clocks ==
  {[valid |-> TRUE, day |-> 30, ms |-> 0],
   [valid |-> TRUE, day |-> 30, ms |-> MsPerDay \div 2],
   [valid |-> TRUE, day |-> 29, ms |-> EndOfDayMs]}

Argvs == [fromDate : DateTexts, toDate : DateTexts,
          tomorrow : BOOLEAN, week : BOOLEAN]

Configs == [accountId : {"", "5b10a2844c20165700ede21g"},
            token : {"", "s3cr3t"},
            jiraBaseUrl : {"https://sitecrafting.atlassian.net/"}]

\* dates.values entries of the API: a single day, a reversed range of three
\* days, two days in order, zero seconds, and no seconds at all.
PlanValues ==
  {[from |-> Jan31, to |-> Jan31, timePlannedSeconds |-> 7200],
   [from |-> Jan30, to |-> Jan31, timePlannedSeconds |-> 28800],
   [from |-> Feb02, to |-> Jan31, timePlannedSeconds |-> 3600],
   [from |-> Jan30, to |-> Feb01, timePlannedSeconds |-> 0],
   [from |-> Feb01, to |-> Feb01]}

\* What a plan carries besides its dates: one item reference with slashes and
\* one without.
PlanHeads ==
  {[self |-> <<"https:", "", "api.tempo.io", "core", "3", "issues", "ABC-123">>,
    description |-> "Fix bug", secondsPerDay |-> 3600],
   [self |-> <<"XYZ-9">>,
    description |-> "Review", secondsPerDay |-> 28800]}

Plan(head, values) ==
  [planItem |-> [self |-> head.self],
   description |-> head.description,
   secondsPerDay |-> head.secondsPerDay,
   dates |-> [values |-> values]]

RECURSIVE SumTo(_, _)
SumTo(counts, k) == IF k = 0 THEN 0 ELSE SumTo(counts, k - 1) + counts[k]

\* The results array of Len(heads) plans, plan k carrying counts[k] of the
\* entries of values, in order.
ResultsOf(heads, counts, values) ==
  [k \in 1..Len(heads) |->
     Plan(heads[k],
          [j \in 1..counts[k] |-> values[SumTo(counts, k - 1) + j]])]

Unsettled == [ok |-> FALSE, results |-> <<>>, reason |-> ""]
NoDates == [from |-> InvalidMoment, to |-> InvalidMoment]

-----------------------------------------------------------------------------
(* The state machine.                                                      *)

InitWith(argvs, configs, clocks) ==
  /\ argv \in argvs
  /\ config \in configs
  /\ now \in clocks
  /\ pc = "start"
  /\ dates = NoDates
  /\ requests = <<>>
  /\ settled = Unsettled
  /\ queryContainsPlans = FALSE
  /\ mappedPlans = <<>>
  /\ output = <<>>

Init == InitWith(Argvs, Configs, Clocks)

ErrorLine(message) == [kind |-> "error", message |-> message, table |-> <<>>]
TableLine(table) == [kind |-> "table", message |-> "", table |-> table]

\* The GET of execute(): the URL's account and dates, and the bearer token.
Request(cfg, d) ==
  [accountId |-> cfg.accountId, token |-> cfg.token,
   from |-> FormatDate(d.from), to |-> FormatDate(d.to)]

\* The try block with the request handed to axios before validateArgs runs.
ExecuteTryRequestFirst(cfg, av, clock) ==
  LET configError == ValidateConfig(cfg)
      d == GetQueryFromAndToDates(av, clock)
      argsError == ValidateArgs(av, d)
  IN IF configError # NoError
     THEN [error |-> configError, dates |-> NoDates, sent |-> <<>>]
     ELSE [error |-> argsError, dates |-> d, sent |-> <<Request(cfg, d)>>]

\* The try block with validateArgs run before validateConfig.
ExecuteTryArgsFirst(cfg, av, clock) ==
  LET configError == ValidateConfig(cfg)
      d == GetQueryFromAndToDates(av, clock)
      argsError == ValidateArgs(av, d)
  IN IF argsError # NoError
     THEN [error |-> argsError, dates |-> d, sent |-> <<>>]
     ELSE IF configError # NoError
     THEN [error |-> configError, dates |-> NoDates, sent |-> <<>>]
     ELSE [error |-> NoError, dates |-> d, sent |-> <<Request(cfg, d)>>]

\* What the try block of execute() does before it returns: the error it
\* catches and prints, or the request it hands to axios.
ExecuteTry(cfg, av, clock) ==
  LET configError == ValidateConfig(cfg)
      d == GetQueryFromAndToDates(av, clock)
      argsError == ValidateArgs(av, d)
  IN IF configError # NoError
     THEN [error |-> configError, dates |-> NoDates, sent |-> <<>>]
     ELSE IF argsError # NoError
     THEN [error |-> argsError, dates |-> d, sent |-> <<>>]
     ELSE [error |-> NoError, dates |-> d, sent |-> <<Request(cfg, d)>>]

\* execute(), up to its return.
Execute ==
  /\ pc = "start"
  /\ LET try == ExecuteTry(config, argv, now)
     IN /\ dates' = try.dates
        /\ requests' = requests \o try.sent
        /\ IF try.error # NoError
           THEN /\ output' = Append(output, ErrorLine(try.error))
                /\ pc' = "done"
           ELSE /\ output' = output
                /\ pc' = "pending"
  /\ UNCHANGED <<argv, config, now, settled, queryContainsPlans, mappedPlans>>

\* The API answers the request with a results array of at most maxPlans plans
\* and at most maxValues dates.values entries in all.
HttpRespondWith(maxPlans, maxValues) ==
  /\ pc = "pending"
  /\ \E n \in 0..maxPlans :
       \E heads \in [1..n -> PlanHeads], counts \in [1..n -> 0..maxValues] :
         /\ SumTo(counts, n) <= maxValues
         /\ \E values \in [1..SumTo(counts, n) -> PlanValues] :
              settled' = [ok |-> TRUE,
                          results |-> ResultsOf(heads, counts, values),
                          reason |-> ""]
  /\ pc' = "resolved"
  /\ UNCHANGED <<argv, config, now, dates, requests, queryContainsPlans,
                 mappedPlans, output>>

\* The answers to the command lines of Init and to those of InitMap.
HttpRespond == HttpRespondWith(FewPlans, FewValues)
HttpRespondMany == HttpRespondWith(MaxPlans, MaxValues)

\* The request fails: axios rejects.
HttpFail ==
  /\ pc = "pending"
  /\ settled' = [ok |-> FALSE, results |-> <<>>, reason |-> UpstreamFetchError]
  /\ pc' = "rejected"
  /\ UNCHANGED <<argv, config, now, dates, requests, queryContainsPlans,
                 mappedPlans, output>>

\* .then(res => ...): map the plans and print the table; a throw rejects the
\* promise the catch callback hangs on.  mapPlans moves from and to to the
\* ends of their days in place.
ThenCallback ==
  /\ pc = "resolved"
  /\ LET mapped == MapPlans(dates.from, dates.to, settled.results)
         contains == Len(settled.results) > 0
     IN /\ queryContainsPlans' = contains
        /\ mappedPlans' = mapped.mappedPlans
        /\ dates' = [from |-> StartOfDay(dates.from), to |-> EndOfDay(dates.to)]
        /\ IF mapped.threw
           THEN /\ settled' = [ok |-> FALSE, results |-> settled.results,
                               reason |-> TypeError]
                /\ output' = output
                /\ pc' = "rejected"
           ELSE /\ settled' = settled
                /\ output' = Append(output,
                     TableLine(BuildResultsTable(mapped.mappedPlans, contains,
                                                 config.jiraBaseUrl, 1)))
                /\ pc' = "done"
  /\ UNCHANGED <<argv, config, now, requests>>

\* A catch callback that prints the error and sends the request again.
CatchCallbackRetry ==
  /\ pc = "rejected"
  /\ output' = Append(output, ErrorLine(settled.reason))
  /\ requests' = Append(requests, requests[1])
  /\ settled' = Unsettled
  /\ pc' = "pending"
  /\ UNCHANGED <<argv, config, now, dates, queryContainsPlans, mappedPlans>>

\* .catch(err => this.outputError(err))
CatchCallback ==
  /\ pc = "rejected"
  /\ output' = Append(output, ErrorLine(settled.reason))
  /\ pc' = "done"
  /\ UNCHANGED <<argv, config, now, dates, requests, settled,
                 queryContainsPlans, mappedPlans>>

Next == Execute \/ HttpRespond \/ HttpFail \/ ThenCallback \/ CatchCallback

Spec == Init /\ [][Next]_vars

\* The command lines whose plans the day mapper is checked on: explicit
\* dates around the turn of the month, config present, one clock.
MapArgvs ==
  {[fromDate |-> w[1], toDate |-> w[2], tomorrow |-> FALSE, week |-> FALSE] :
     w \in {<<Jan30, Jan31>>, <<Jan31, Jan31>>, <<Feb01, Feb01>>, <<Feb01, Feb02>>}}
MapConfigs == {c \in Configs : ValidateConfig(c) = NoError}
MapClocks == {[valid |-> TRUE, day |-> 30, ms |-> MsPerDay \div 2]}

InitMap == InitWith(MapArgvs, MapConfigs, MapClocks)

NextMap == Execute \/ HttpRespondMany \/ HttpFail \/ ThenCallback \/ CatchCallback

SpecMap == InitMap /\ [][NextMap]_vars

-----------------------------------------------------------------------------
(* What the claims speak of.                                               *)

\* The command has printed exactly this one error and ended.
EndedWithError(message) ==
  pc = "done" /\ output = <<ErrorLine(message)>>

\* execute() has returned.
Executed == pc # "start"

\* The then callback has just run mapPlans on the response: it printed the
\* table, or mapPlans threw and the catch callback is due.
MapPlansRan ==
  \/ pc = "done" /\ Len(output) = 1 /\ output[1].kind = "table"
  \/ pc = "rejected" /\ settled.reason = TypeError

\* The table was printed.
TablePrinted == pc = "done" /\ Len(output) = 1 /\ output[1].kind = "table"

\* The calendar date n days after 2020-01-01.
DateOfDay(n) == FormatDate([valid |-> TRUE, day |-> n, ms |-> 0])

-----------------------------------------------------------------------------
(* C3: whenever the command has ended with a validation error              *)
(* (MissingConfig, ConflictingOptions, InvalidDate, RangeOrderError or     *)
(* RangeTooLarge), no HTTP request has been issued; a request is only ever *)
(* issued when config validation and argument validation both succeed.     *)
C3_NoRequestOnValidationError ==
  /\ (\E i \in 1..Len(output) :
        output[i].kind = "error" /\ output[i].message \in ValidationErrors)
       => requests = <<>>
  /\ requests # <<>> =>
       /\ config.accountId # "" /\ config.token # ""
       /\ ~(argv.tomorrow /\ argv.week)
       /\ (~argv.tomorrow /\ ~argv.week) =>
            LET f == ParseDate(argv.fromDate)
                t == ParseDate(argv.toDate)
            IN f.valid /\ t.valid /\ f.day <= t.day /\ t.day - f.day <= 13

\* C3 witness: the command ended with RangeTooLarge on valid config.
C3_Witness ==
  /\ EndedWithError(RangeTooLarge)
  /\ config.accountId # "" /\ config.token # ""

(* C4: with both the tomorrow and the week flag set and the required       *)
(* config present, the command fails with ConflictingOptions whatever the  *)
(* from/to texts are, and with no other validation error.                  *)
C4_BothFlagsConflict ==
  (Executed /\ argv.tomorrow /\ argv.week
     /\ config.accountId # "" /\ config.token # "")
    => EndedWithError(ConflictingOptions) /\ requests = <<>>

\* C4 witness: both flags with a from text that is no date and a to text
\* naming a day that does not exist.
C4_Witness ==
  /\ EndedWithError(ConflictingOptions)
  /\ argv.tomorrow /\ argv.week
  /\ argv.fromDate = NoDate /\ argv.toDate = Feb30

(* C9: with exactly one shorthand flag the query interval depends on the   *)
(* clock alone: tomorrow gives [today + 1, today + 1], week gives          *)
(* [today, today + 6]; with neither flag it is the pair of dates the       *)
(* from/to texts name.  The dates of the request are this interval.        *)
C9_ResolvedInterval ==
  requests # <<>> =>
    /\ Len(requests) = 1
    /\ dates.from.day = ParseDate(requests[1].from).day
    /\ dates.to.day = ParseDate(requests[1].to).day
    /\ (argv.tomorrow /\ ~argv.week) =>
         /\ requests[1].from = DateOfDay(now.day + 1)
         /\ requests[1].to = DateOfDay(now.day + 1)
    /\ (argv.week /\ ~argv.tomorrow) =>
         /\ requests[1].from = DateOfDay(now.day)
         /\ requests[1].to = DateOfDay(now.day + 6)
    /\ (~argv.week /\ ~argv.tomorrow) =>
         /\ requests[1].from = argv.fromDate
         /\ requests[1].to = argv.toDate

\* C9 witness: week at noon of 2020-01-31 with texts that are no dates asks
\* for 2020-01-31 to 2020-02-06.
C9_Witness ==
  /\ pc = "pending"
  /\ argv.week /\ ~argv.tomorrow
  /\ argv.fromDate = NoDate /\ argv.toDate = Feb30
  /\ now.day = 30 /\ now.ms = MsPerDay \div 2
  /\ requests[1].from = Jan31 /\ requests[1].to = <<2020, 2, 6>>

(* C10: for a resolved interval of two valid dates (config present, not    *)
(* both flags), the command fails with RangeOrderError exactly when from   *)
(* is after to, with RangeTooLarge exactly when from <= to and the         *)
(* inclusive day count to - from + 1 exceeds 14, and otherwise passes      *)
(* validation: 14 inclusive days are accepted, 15 are not, from = to is.   *)
C10_RangeLimits ==
  LET flag == argv.tomorrow \/ argv.week
      first == IF argv.tomorrow THEN now.day + 1
               ELSE IF argv.week THEN now.day
               ELSE ParseDate(argv.fromDate).day
      last == IF argv.tomorrow THEN now.day + 1
              ELSE IF argv.week THEN now.day + 6
              ELSE ParseDate(argv.toDate).day
      count == last - first + 1
  IN (Executed /\ config.accountId # "" /\ config.token # ""
        /\ ~(argv.tomorrow /\ argv.week)
        /\ (flag \/ (ParseDate(argv.fromDate).valid /\ ParseDate(argv.toDate).valid)))
       => /\ EndedWithError(RangeOrderError) <=> first > last
          /\ EndedWithError(RangeTooLarge) <=> (first <= last /\ count > 14)
          /\ (first <= last /\ count <= 14) =>
               /\ Len(requests) = 1
               /\ \A i \in 1..Len(output) : output[i].message \notin ValidationErrors

\* C10 witness: 2020-01-30 to 2020-02-12, 14 inclusive days, is accepted.
C10_Witness ==
  /\ pc = "pending"
  /\ ~argv.tomorrow /\ ~argv.week
  /\ argv.fromDate = Jan30 /\ argv.toDate = Feb12
  /\ dates.to.day - dates.from.day + 1 = 14
  /\ Len(requests) = 1

-----------------------------------------------------------------------------
(* The day mapping the specification describes, stated on calendar days.   *)

\* The entry carries planned time: its seconds are there and not zero.
NonZero(v) ==
  IF "timePlannedSeconds" \in DOMAIN v THEN v.timePlannedSeconds > 0 ELSE FALSE

Min(a, b) == IF a <= b THEN a ELSE b
Max(a, b) == IF a <= b THEN b ELSE a

\* First and last calendar day of an entry's normalized interval.
FirstDay(v) == Min(ParseDate(v.from).day, ParseDate(v.to).day)
LastDay(v) == Max(ParseDate(v.from).day, ParseDate(v.to).day)

\* First and last calendar day of the query interval.
QueryFirst == dates.from.day
QueryLast == dates.to.day

\* The entry's interval has no day in common with the query interval.
Outside(v) == LastDay(v) < QueryFirst \/ FirstDay(v) > QueryLast

\* The (record, entry) index pairs with planned time whose interval contains
\* day n, in the order of the records and of the entries within a record.
PairsOfPlan(results, k, n) ==
  LET values == results[k].dates.values
      Covers(pair) == /\ NonZero(values[pair[2]])
                      /\ FirstDay(values[pair[2]]) <= n
                      /\ n <= LastDay(values[pair[2]])
  IN SelectSeq([j \in 1..Len(values) |-> <<k, j>>], Covers)

RECURSIVE PairsFrom(_, _, _)
PairsFrom(results, k, n) ==
  IF k > Len(results) THEN <<>>
  ELSE PairsOfPlan(results, k, n) \o PairsFrom(results, k + 1, n)

PairsOn(results, n) == PairsFrom(results, 1, n)

\* The results with the entries a test rejects taken out of every record.
Keeping(results, Test(_)) ==
  [k \in 1..Len(results) |->
     [results[k] EXCEPT !.dates.values = SelectSeq(@, Test)]]

\* Some record of the results has an entry with planned time outside the
\* query interval.
HasOutsideEntry(results) ==
  \E k \in 1..Len(results) : \E j \in 1..Len(results[k].dates.values) :
    NonZero(results[k].dates.values[j]) /\ Outside(results[k].dates.values[j])

\* The API has answered the request (whatever the callbacks did since).
Answered == Len(requests) = 1 /\ (settled.ok \/ settled.reason = TypeError)

-----------------------------------------------------------------------------
(* C1: an entry with planned time whose interval has no day in common with *)
(* the query interval is skipped: nothing is added for it, no error is     *)
(* raised, every other entry and record is still mapped and the table is   *)
(* still printed.                                                          *)
C1_OutsideEntrySkipped ==
  LET Inside(v) == ~(NonZero(v) /\ Outside(v))
  IN (pc = "done" /\ Answered /\ HasOutsideEntry(settled.results))
       => /\ TablePrinted
          /\ mappedPlans =
               MapPlans(dates.from, dates.to,
                        Keeping(settled.results, Inside)).mappedPlans

C5_OneKeyPerDay ==
  MapPlansRan =>
    /\ QueryFirst <= QueryLast /\ QueryLast - QueryFirst + 1 <= 14
    /\ Len(mappedPlans) = QueryLast - QueryFirst + 1
    /\ \A i \in 1..Len(mappedPlans) :
         /\ Len(mappedPlans[i].key) = 3
         /\ ParseDate(mappedPlans[i].key).valid
         /\ ParseDate(mappedPlans[i].key).day = QueryFirst + (i - 1)
         /\ PairsOn(settled.results, QueryFirst + (i - 1)) = <<>>
              => mappedPlans[i].items = <<>>

\* C5 witness: the 14 days from 2020-01-30 to 2020-02-12 are mapped, one
\* plan among them, the last key being 2020-02-12 with an empty list.
C5_Witness ==
  /\ TablePrinted
  /\ argv.fromDate = Jan30 /\ argv.toDate = Feb12
  /\ ~argv.tomorrow /\ ~argv.week
  /\ Len(settled.results) = 1
  /\ Len(mappedPlans) = 14
  /\ mappedPlans[14] = [key |-> Feb12, items |-> <<>>]
  /\ mappedPlans[2].items # <<>>

(* C6: for every day d of the query interval, the list stored for d has    *)
(* exactly one item per (record, entry with planned time) pair whose       *)
(* normalized interval contains d, duplicates kept, in the order of the    *)
(* records and then of the entries within a record.                        *)
C6_OneItemPerCoveringEntry ==
  MapPlansRan =>
    \A i \in 1..Len(mappedPlans) :
      LET pairs == PairsOn(settled.results, ParseDate(mappedPlans[i].key).day)
          items == mappedPlans[i].items
      IN /\ Len(items) = Len(pairs)
         /\ \A j \in 1..Len(pairs) :
              items[j].task = settled.results[pairs[j][1]].planItem.self

(* C7: an entry whose timePlannedSeconds is zero or absent yields no       *)
(* interval from getPlanDateRanges and no item from mapPlans on any day,   *)
(* whatever its dates; the other entries of the record are unaffected:     *)
(* the outcome is that of the results with those entries taken out.        *)
C7_ZeroEntriesExcluded ==
  Answered =>
    LET kept == Keeping(settled.results, NonZero)
        mapped == MapPlans(dates.from, dates.to, kept)
    IN /\ \A k \in 1..Len(settled.results) :
            LET ranges == GetPlanDateRanges(settled.results[k])
            IN /\ Len(ranges) = Len(kept[k].dates.values)
               /\ ranges = GetPlanDateRanges(kept[k])
               /\ \A j \in 1..Len(kept[k].dates.values) :
                    /\ ranges[j].start.day = FirstDay(kept[k].dates.values[j])
                    /\ ranges[j].end.day = LastDay(kept[k].dates.values[j])
       /\ MapPlansRan =>
            /\ mappedPlans = mapped.mappedPlans
            /\ (settled.reason = TypeError) = mapped.threw

\* C7 witness: a printed table for 2020-01-30 and 2020-01-31 from one record
\* whose entries are a zero-seconds one covering both days and one of 7200
\* seconds on the second: the first day has no item, the second has one.
C7_Witness ==
  /\ TablePrinted
  /\ argv.fromDate = Jan30 /\ argv.toDate = Jan31
  /\ Len(settled.results) = 1
  /\ settled.results[1].dates.values =
       <<[from |-> Jan30, to |-> Feb01, timePlannedSeconds |-> 0],
         [from |-> Jan31, to |-> Jan31, timePlannedSeconds |-> 7200]>>
  /\ Len(mappedPlans) = 2
  /\ Len(mappedPlans[1].items) = 0 /\ Len(mappedPlans[2].items) = 1

\* The results with from and to of entry j of record k exchanged.
Swapped(results, k, j) ==
  [results EXCEPT ![k].dates.values[j] =
     [@ EXCEPT !.from = results[k].dates.values[j].to,
               !.to = results[k].dates.values[j].from]]

(* C8: for an entry with planned time whose from is after its to,          *)
(* getPlanDateRanges raises no error and yields the interval of the entry  *)
(* with from and to exchanged, and mapPlans the same outcome: the interval *)
(* runs from the start of the earlier day to the end of the later one.     *)
C8_ReversedEntryNormalized ==
  Answered =>
    \A k \in 1..Len(settled.results) :
      \A j \in 1..Len(settled.results[k].dates.values) :
        LET v == settled.results[k].dates.values[j]
            other == Swapped(settled.results, k, j)
            mapped == MapPlans(dates.from, dates.to, other)
        IN (NonZero(v) /\ ParseDate(v.from).day > ParseDate(v.to).day)
             => /\ PlanDateRange(v) = PlanDateRange(other[k].dates.values[j])
                /\ PlanDateRange(v).start = StartOfDay(ParseDate(v.to))
                /\ PlanDateRange(v).end = EndOfDay(ParseDate(v.from))
                /\ GetPlanDateRanges(settled.results[k])
                     = GetPlanDateRanges(other[k])
                /\ MapPlansRan =>
                     /\ mappedPlans = mapped.mappedPlans
                     /\ (settled.reason = TypeError) = mapped.threw

\* C8 witness: a printed table for 2020-02-01 and 2020-02-02 from one entry
\* given as 2020-02-02 to 2020-01-31: both days have its item.
C8_Witness ==
  /\ TablePrinted
  /\ argv.fromDate = Feb01 /\ argv.toDate = Feb02
  /\ Len(settled.results) = 1
  /\ settled.results[1].dates.values =
       <<[from |-> Feb02, to |-> Jan31, timePlannedSeconds |-> 3600]>>
  /\ Len(mappedPlans) = 2
  /\ Len(mappedPlans[1].items) = 1 /\ Len(mappedPlans[2].items) = 1


(* C11: an invocation issues at most one HTTP request; when that request   *)
(* fails, the failure is printed exactly once, no second request is        *)
(* issued, no table is printed, and the command has then ended: nothing    *)
(* more happens.                                                           *)
C11_OneRequestNoRetry ==
  /\ Len(requests) <= 1
  /\ settled.reason = UpstreamFetchError =>
       /\ Len(requests) = 1
       /\ pc \in {"rejected", "done"}
       /\ pc = "rejected" => output = <<>>
       /\ pc = "done" => output = <<ErrorLine(UpstreamFetchError)>>
       /\ mappedPlans = <<>>
  /\ pc = "done" => ~ENABLED Next

\* C11 witness: the request for 2020-01-30 to 2020-02-12 failed, the failure
\* was printed and the command has ended.
C11_Witness ==
  /\ pc = "done"
  /\ settled.reason = UpstreamFetchError
  /\ Len(requests) = 1
  /\ requests[1].from = Jan30 /\ requests[1].to = Feb12
  /\ output = <<ErrorLine(UpstreamFetchError)>>


\* The validation failure that applies first, in the order MissingConfig,
\* ConflictingOptions, InvalidDate, RangeOrderError, RangeTooLarge, or
\* NoError when none applies.  The from/to texts count unless exactly one
\* shorthand flag replaces them by the clock.
FirstFailure ==
  LET oneFlag == argv.tomorrow # argv.week
      valid == oneFlag
                 \/ (ParseDate(argv.fromDate).valid /\ ParseDate(argv.toDate).valid)
      first == IF ~oneFlag THEN ParseDate(argv.fromDate).day
               ELSE IF argv.tomorrow THEN now.day + 1 ELSE now.day
      last == IF ~oneFlag THEN ParseDate(argv.toDate).day
              ELSE IF argv.tomorrow THEN now.day + 1 ELSE now.day + 6
      missing == config.accountId = "" \/ config.token = ""
      conflict == argv.tomorrow /\ argv.week
      invalid == ~valid
      order == valid /\ first > last
      large == valid /\ first <= last /\ last - first + 1 > 14
  IN IF missing THEN MissingConfig
     ELSE IF conflict THEN ConflictingOptions
     ELSE IF invalid THEN InvalidDate
     ELSE IF order THEN RangeOrderError
     ELSE IF large THEN RangeTooLarge
     ELSE NoError

(* C12: an invocation ends with exactly one outcome, one error message or  *)
(* the results table, never both and never neither: nothing is printed     *)
(* before the end, every position before the end has a next step (the     *)
(* call to execute, the settling of the request, a then callback that      *)
(* throws or has a table to print, the catch callback), and                *)
(* at the end exactly one line is out.  When several validation failures   *)
(* apply at once, the error printed is the first that applies in the order *)
(* MissingConfig, ConflictingOptions, InvalidDate, RangeOrderError,        *)
(* RangeTooLarge.                                                          *)
C12_OneOutcomeFirstError ==
  /\ pc # "done" => output = <<>>
  /\ pc = "start" => ENABLED Execute
  /\ pc = "pending" => ENABLED HttpFail
  /\ pc = "resolved" =>
       LET mapped == MapPlans(dates.from, dates.to, settled.results)
       IN \/ mapped.threw
          \/ BuildResultsTable(mapped.mappedPlans, Len(settled.results) > 0,
                               config.jiraBaseUrl, 1) # <<>>
  /\ pc = "rejected" => ENABLED CatchCallback
  /\ pc \in {"start", "pending", "resolved", "rejected", "done"}
  /\ pc = "done" =>
       /\ Len(output) = 1
       /\ \/ output[1].kind = "error" /\ output[1].message # ""
                                      /\ output[1].table = <<>>
          \/ output[1].kind = "table" /\ output[1].message = ""
                                      /\ output[1].table # <<>>
  /\ Executed =>
       IF FirstFailure # NoError
       THEN EndedWithError(FirstFailure)
       ELSE /\ Len(requests) = 1
            /\ \A i \in 1..Len(output) : output[i].message \notin ValidationErrors

\* C12 witness: no token, both flags, a from text that is no date and a to
\* text naming no day: three failures apply and MissingConfig is printed.
C12_Witness ==
  /\ EndedWithError(MissingConfig)
  /\ config.accountId # "" /\ config.token = ""
  /\ argv.tomorrow /\ argv.week
  /\ argv.fromDate = NoDate /\ argv.toDate = Feb30

====
